---- MODULE Spec2Model ----
(***************************************************************************)
(* Model of app.py, the climate dashboard: get_climate_data (acquisition   *)
(* and on-disk cache), process_data (yearly aggregation and the 10-row     *)
(* rolling mean) and the city comparison tab.                              *)
(***************************************************************************)
EXTENDS Integers, Sequences, FiniteSets, TLC

VARIABLES
    disk,            \* working directory: file name -> content id, Absent if no file
    pc,              \* per run of get_climate_data: position in the function
    idx,             \* per run: index of the file the current loop is at
    required_files,  \* per run: the dict required_files (None or a loaded table)
    response,        \* per run: what requests.get returned
    progress,        \* per run: values passed to progress_bar.progress
    errors,          \* per run: messages passed to st.error
    raised,          \* per run: exception caught at line 72, NoException if none
    exists_seen,     \* per run: what os.path.exists returned at line 62 per file
    http_calls,      \* number of calls of requests.get (mocked network client)
    writes,          \* per run and file: number of df.to_csv calls
    start_disk,      \* per run: the disk as it was when the run began
    start_http,      \* per run: http_calls when the run began
    runs,            \* number of runs of get_climate_data started so far
    data_files,      \* the three tables get_climate_data returned to the script
    processed_data,  \* the dict process_data returned, NoData before line 151
    selected_cities, \* value of the multiselect of tab3
    tab3,            \* what tab3 put on the page: chart and warning
    dpc              \* position of the script: "loaded", "processed", "rendered"

acq_vars == <<disk, pc, idx, required_files, response, progress, errors, raised,
              exists_seen, http_calls, writes, start_disk, start_http, runs>>

dash_vars == <<data_files, processed_data, selected_cities, tab3, dpc>>

vars == <<acq_vars, dash_vars>>

----------------------------------------------------------------------------
(* Bounds *)
MaxContent == 2      \* distinct table contents a file or archive member can hold
MaxChunks == 1       \* chunks in a response body, in units of one chunk
MaxRuns == 2         \* sequential runs of get_climate_data

Procs == {1, 2}

----------------------------------------------------------------------------
(* get_climate_data: data *)

\* required_files keys, in dict order (lines 18-22)
Files == << "GlobalTemperatures.csv",
            "GlobalLandTemperaturesByCountry.csv",
            "GlobalLandTemperaturesByCity.csv" >>

FileNames == {Files[i] : i \in 1..Len(Files)}

None == 0            \* required_files[filename] = None
Absent == 0          \* os.path.exists(filename) is False
Contents == 1..MaxContent

\* a member of the ZIP: not in z.namelist(), not parseable by read_csv, or a table
Missing == 0
Malformed == -1

NoException == "none"
NoResponse == [status |-> "none", content_length |-> 0, chunks |-> <<>>,
               valid_zip |-> FALSE, archive |-> [f \in FileNames |-> Missing]]

\* a body as the lengths of its chunks, in units of chunk_size (line 43)
ChunkSeqs == UNION {[1..n -> {1}] : n \in 0..MaxChunks}

\* the archives: each expected member is missing, malformed or a table of the
\* dataset version the archive was built from
Archives ==
    UNION {[FileNames -> {Missing, Malformed, c}] : c \in Contents}

\* Outcomes of requests.get(DATA_URL, stream=True): a connection error, a
\* non-2xx status, or a body with a declared content-length (0 when the header
\* is absent, line 38).  An empty body is not a ZIP archive.
ErrorResponses ==
    {[NoResponse EXCEPT !.status = s] : s \in {"ConnectionError", "HTTPError"}}

OkResponses ==
    {[status |-> "ok", content_length |-> n, chunks |-> c, valid_zip |-> v, archive |-> a] :
        n \in 0..(MaxChunks + 1), c \in ChunkSeqs, v \in BOOLEAN, a \in Archives}

Responses ==
    ErrorResponses \cup
    {r \in OkResponses : /\ (r.chunks = <<>> => ~r.valid_zip)
                         /\ (~r.valid_zip => r.archive = NoResponse.archive)}

\* Responses of a healthy server: a valid archive of well-formed members
\* (some possibly missing) with the right content-length.
HealthyResponses ==
    {r \in Responses : /\ r.status = "ok"
                       /\ r.valid_zip
                       /\ r.chunks = <<1>>
                       /\ r.content_length = 1
                       /\ \A f \in FileNames : r.archive[f] # Malformed}

----------------------------------------------------------------------------
(* get_climate_data: helpers *)

\* line 25: all(os.path.exists(f) for f in required_files.keys()), on a snapshot
AllCached(d) == \A f \in FileNames : d[f] # Absent

\* mutant: any(...) instead of all(...)
AllLoaded_any(rf) == \E f \in FileNames : rf[f] # None

\* line 66: all(df is not None for df in required_files.values())
AllLoaded(rf) == \A f \in FileNames : rf[f] # None

\* line 45: min(downloaded / total_size, 1.0) as a fraction <<num, den>>
Progress(downloaded, total_size) ==
    IF downloaded >= total_size THEN <<1, 1>> ELSE <<downloaded, total_size>>

\* lines 43-47: the values reported while iterating over the chunks; the
\* division at line 45 raises ZeroDivisionError when total_size is 0
RECURSIVE StreamLoop(_, _, _, _)
StreamLoop(chunks, total_size, downloaded, reported) ==
    IF chunks = <<>> THEN [raised |-> NoException, progress |-> reported]
    ELSE IF total_size = 0 THEN [raised |-> "ZeroDivisionError", progress |-> reported]
    ELSE StreamLoop(Tail(chunks), total_size, downloaded + Head(chunks),
                    Append(reported, Progress(downloaded + Head(chunks), total_size)))

\* mutant: a member that is not in the archive raises (z.open without the test
\* at line 54) instead of being reported
RECURSIVE ExtractLoop_raise(_, _, _, _)
ExtractLoop_raise(archive, i, rf, errs) ==
    IF i > Len(Files) THEN [raised |-> NoException, required_files |-> rf, errors |-> errs]
    ELSE LET filename == Files[i] IN
         IF archive[filename] = Missing
         THEN [raised |-> "KeyError", required_files |-> rf, errors |-> errs]
         ELSE IF archive[filename] = Malformed
         THEN [raised |-> "ParserError", required_files |-> rf, errors |-> errs]
         ELSE ExtractLoop_raise(archive, i + 1, [rf EXCEPT ![filename] = archive[filename]], errs)

\* lines 53-58: the loop over required_files inside the open ZipFile
RECURSIVE ExtractLoop(_, _, _, _)
ExtractLoop(archive, i, rf, errs) ==
    IF i > Len(Files) THEN [raised |-> NoException, required_files |-> rf, errors |-> errs]
    ELSE LET filename == Files[i] IN
         IF archive[filename] = Missing
         THEN ExtractLoop(archive, i + 1, rf,
                          Append(errs, <<"Missing file in ZIP", filename>>))
         ELSE IF archive[filename] = Malformed
         THEN [raised |-> "ParserError", required_files |-> rf, errors |-> errs]
         ELSE ExtractLoop(archive, i + 1, [rf EXCEPT ![filename] = archive[filename]], errs)

----------------------------------------------------------------------------
(* get_climate_data: steps *)

unchanged_ghost == UNCHANGED <<start_disk, start_http, runs, dash_vars>>

\* A call of get_climate_data begins (line 140); one run at a time.
Start(p) ==
    /\ \A q \in Procs : pc[q] \in {"idle", "returned", "stopped", "crashed"}
    /\ runs < MaxRuns
    /\ runs' = runs + 1
    /\ pc' = [pc EXCEPT ![p] = "exists_all"]
    /\ idx' = [idx EXCEPT ![p] = 1]
    /\ required_files' = [required_files EXCEPT ![p] = [f \in FileNames |-> None]]
    /\ response' = [response EXCEPT ![p] = NoResponse]
    /\ progress' = [progress EXCEPT ![p] = <<>>]
    /\ errors' = [errors EXCEPT ![p] = <<>>]
    /\ raised' = [raised EXCEPT ![p] = NoException]
    /\ exists_seen' = [exists_seen EXCEPT ![p] = [f \in FileNames |-> "unchecked"]]
    /\ start_disk' = [start_disk EXCEPT ![p] = disk]
    /\ start_http' = [start_http EXCEPT ![p] = http_calls]
    /\ UNCHANGED <<disk, http_calls, writes, dash_vars>>

\* mutant: the test at line 25 inverted, the download runs when every file exists
ExistsAll_inverted(p) ==
    /\ pc[p] = "exists_all"
    /\ IF disk[Files[idx[p]]] = Absent
       THEN /\ pc' = [pc EXCEPT ![p] = "read_cached"]
            /\ idx' = [idx EXCEPT ![p] = 1]
       ELSE IF idx[p] = Len(Files)
       THEN /\ pc' = [pc EXCEPT ![p] = "http_get"]
            /\ idx' = [idx EXCEPT ![p] = 1]
       ELSE /\ idx' = [idx EXCEPT ![p] = idx[p] + 1]
            /\ UNCHANGED pc
    /\ UNCHANGED <<disk, required_files, response, progress, errors, raised,
                   exists_seen, http_calls, writes>>
    /\ unchanged_ghost

\* line 25: one os.path.exists of the all(...) generator, which stops at the
\* first False
ExistsAll(p) ==
    /\ pc[p] = "exists_all"
    /\ IF disk[Files[idx[p]]] = Absent
       THEN /\ pc' = [pc EXCEPT ![p] = "http_get"]
            /\ idx' = [idx EXCEPT ![p] = 1]
       ELSE IF idx[p] = Len(Files)
       THEN /\ pc' = [pc EXCEPT ![p] = "read_cached"]
            /\ idx' = [idx EXCEPT ![p] = 1]
       ELSE /\ idx' = [idx EXCEPT ![p] = idx[p] + 1]
            /\ UNCHANGED pc
    /\ UNCHANGED <<disk, required_files, response, progress, errors, raised,
                   exists_seen, http_calls, writes>>
    /\ unchanged_ghost

\* lines 26-28: one pd.read_csv(filename) of the loop, then return
ReadCached(p) ==
    /\ pc[p] = "read_cached"
    /\ LET filename == Files[idx[p]] IN
       IF disk[filename] = Absent
       THEN /\ pc' = [pc EXCEPT ![p] = "crashed"]    \* FileNotFoundError, not caught
            /\ UNCHANGED <<required_files, idx>>
       ELSE /\ required_files' = [required_files EXCEPT ![p][filename] = disk[filename]]
            /\ IF idx[p] = Len(Files)
               THEN /\ pc' = [pc EXCEPT ![p] = "returned"]
                    /\ UNCHANGED idx
               ELSE /\ idx' = [idx EXCEPT ![p] = idx[p] + 1]
                    /\ UNCHANGED pc
    /\ UNCHANGED <<disk, response, progress, errors, raised, exists_seen,
                   http_calls, writes>>
    /\ unchanged_ghost

\* lines 72-74: except Exception as e: st.error(...); st.stop()
Except(p, e, errs) ==
    /\ raised' = [raised EXCEPT ![p] = e]
    /\ errors' = [errors EXCEPT ![p] = Append(errs, <<"Download failed", e>>)]
    /\ pc' = [pc EXCEPT ![p] = "stopped"]

\* lines 33-34: requests.get and response.raise_for_status()
HttpGet(p, R) ==
    /\ pc[p] = "http_get"
    /\ \E r \in R :
        /\ response' = [response EXCEPT ![p] = r]
        /\ http_calls' = http_calls + 1
        /\ IF r.status = "ok"
           THEN /\ pc' = [pc EXCEPT ![p] = "stream"]
                /\ UNCHANGED <<raised, errors>>
           ELSE Except(p, r.status, errors[p])
    /\ UNCHANGED <<disk, idx, required_files, progress, exists_seen, writes>>
    /\ unchanged_ghost

\* lines 36-49: the progress bar and the loop over response.iter_content
Stream(p) ==
    /\ pc[p] = "stream"
    /\ LET total_size == response[p].content_length
           out == StreamLoop(response[p].chunks, total_size, 0, <<>>)
       IN /\ progress' = [progress EXCEPT ![p] = out.progress]
          /\ IF out.raised = NoException
             THEN /\ pc' = [pc EXCEPT ![p] = "extract"]
                  /\ UNCHANGED <<raised, errors>>
             ELSE Except(p, out.raised, errors[p])
    /\ UNCHANGED <<disk, idx, required_files, response, exists_seen, http_calls, writes>>
    /\ unchanged_ghost

\* lines 52-58: open the buffer as a ZIP and read the expected members
Extract(p) ==
    /\ pc[p] = "extract"
    /\ IF ~response[p].valid_zip
       THEN /\ Except(p, "BadZipFile", errors[p])
            /\ UNCHANGED <<required_files, idx>>
       ELSE LET out == ExtractLoop(response[p].archive, 1, required_files[p], errors[p])
            IN /\ required_files' = [required_files EXCEPT ![p] = out.required_files]
               /\ IF out.raised = NoException
                  THEN /\ pc' = [pc EXCEPT ![p] = "persist"]
                       /\ idx' = [idx EXCEPT ![p] = 1]
                       /\ errors' = [errors EXCEPT ![p] = out.errors]
                       /\ UNCHANGED raised
                  ELSE /\ Except(p, out.raised, out.errors)
                       /\ UNCHANGED idx
    /\ UNCHANGED <<disk, response, progress, exists_seen, http_calls, writes>>
    /\ unchanged_ghost

\* after one iteration of the loop at line 61
NextPersist(p) ==
    IF idx[p] = Len(Files)
    THEN /\ pc' = [pc EXCEPT ![p] = "loaded_check"]
         /\ UNCHANGED idx
    ELSE /\ pc' = [pc EXCEPT ![p] = "persist"]
         /\ idx' = [idx EXCEPT ![p] = idx[p] + 1]

\* mutant: the existence test dropped, every parsed dataset is written
ShouldPersist_overwrite(df, file_exists) == df # None

\* line 62: df is not None and not os.path.exists(filename)
ShouldPersist(df, file_exists) == df # None /\ ~file_exists

\* mutant: the result of os.path.exists is not used, every parsed dataset is written
PersistCheck_noTest(p) ==
    /\ pc[p] = "persist"
    /\ LET filename == Files[idx[p]]
           df == required_files[p][filename]
           file_exists == disk[filename] # Absent
       IN /\ exists_seen' =
                 [exists_seen EXCEPT ![p][filename] =
                     IF df = None THEN "unchecked"      \* and short-circuits
                     ELSE IF file_exists THEN "present" ELSE "absent"]
          /\ IF df # None
             THEN /\ pc' = [pc EXCEPT ![p] = "to_csv"]
                  /\ UNCHANGED idx
             ELSE NextPersist(p)
    /\ UNCHANGED <<disk, required_files, response, progress, errors, raised,
                   http_calls, writes>>
    /\ unchanged_ghost

\* lines 61-62: one iteration's test
PersistCheck(p) ==
    /\ pc[p] = "persist"
    /\ LET filename == Files[idx[p]]
           df == required_files[p][filename]
           file_exists == disk[filename] # Absent
       IN /\ exists_seen' =
                 [exists_seen EXCEPT ![p][filename] =
                     IF df = None THEN "unchecked"      \* and short-circuits
                     ELSE IF file_exists THEN "present" ELSE "absent"]
          /\ IF ShouldPersist(df, file_exists)
             THEN /\ pc' = [pc EXCEPT ![p] = "to_csv"]
                  /\ UNCHANGED idx
             ELSE NextPersist(p)
    /\ UNCHANGED <<disk, required_files, response, progress, errors, raised,
                   http_calls, writes>>
    /\ unchanged_ghost

\* line 63: df.to_csv(filename, index=False)
ToCsv(p) ==
    /\ pc[p] = "to_csv"
    /\ LET filename == Files[idx[p]] IN
       /\ disk' = [disk EXCEPT ![filename] = required_files[p][filename]]
       /\ writes' = [writes EXCEPT ![p][filename] = writes[p][filename] + 1]
    /\ NextPersist(p)
    /\ UNCHANGED <<required_files, response, progress, errors, raised, exists_seen,
                   http_calls>>
    /\ unchanged_ghost

\* lines 66-70: the final check, st.stop() or return
LoadedCheck(p) ==
    /\ pc[p] = "loaded_check"
    /\ IF AllLoaded(required_files[p])
       THEN /\ pc' = [pc EXCEPT ![p] = "returned"]
            /\ UNCHANGED errors
       ELSE /\ pc' = [pc EXCEPT ![p] = "stopped"]
            /\ errors' = [errors EXCEPT ![p] =
                             Append(errors[p], <<"One or more files failed to load properly.">>)]
    /\ UNCHANGED <<disk, idx, required_files, response, progress, raised, exists_seen,
                   http_calls, writes>>
    /\ unchanged_ghost

----------------------------------------------------------------------------
(* process_data: numbers *)

\* A cell of a numeric column is a fraction <<num, den>> in lowest terms with
\* den > 0, or NaN.
NaN == <<0, 0>>
IsNaN(r) == r[2] = 0
Abs(n) == IF n < 0 THEN -n ELSE n

RECURSIVE GCD(_, _)
GCD(a, b) == IF b = 0 THEN a ELSE GCD(b, a % b)

Norm(r) == LET g == GCD(Abs(r[1]), r[2]) IN <<r[1] \div g, r[2] \div g>>
Num(v) == <<v, 1>>
RatAdd(a, b) == Norm(<<a[1] * b[2] + b[1] * a[2], a[2] * b[2]>>)
RatDivInt(a, n) == Norm(<<a[1], a[2] * n>>)

----------------------------------------------------------------------------
(* process_data: tables *)

\* the dt column as text: <<year, month>> fields, or empty
NoDate == <<>>
\* pd.to_datetime (lines 82, 89, 94): text to a timestamp, empty text to NaT
NaT == [year |-> 0, month |-> 0]
to_datetime(text) ==
    IF text = NoDate THEN NaT ELSE [year |-> text[1], month |-> text[2]]
\* .dt.year (lines 83, 90, 95): NaN for NaT
NaNYear == 0
dt_year(ts) == IF ts = NaT THEN NaNYear ELSE ts.year

NumericColumns == {"LandAverageTemperature", "LandAverageTemperatureUncertainty"}

\* lines 82-83 for one row of the global table
AnnotateGlobal(row) ==
    LET ts == to_datetime(row.dt) IN
    [dt |-> ts, Year |-> dt_year(ts),
     LandAverageTemperature |-> row.LandAverageTemperature,
     LandAverageTemperatureUncertainty |-> row.LandAverageTemperatureUncertainty]

\* lines 89-90 and 94-95 for one row of the country or city table
AnnotatePlace(row) ==
    LET ts == to_datetime(row.dt) IN
    [dt |-> ts, Year |-> dt_year(ts),
     AverageTemperature |-> row.AverageTemperature, Place |-> row.Place]

\* ascending order of the group keys (groupby sorts them and drops NaN keys)
RECURSIVE SortSet(_)
SortSet(S) ==
    IF S = {} THEN <<>>
    ELSE LET m == CHOOSE x \in S : \A y \in S : x <= y
         IN <<m>> \o SortSet(S \ {m})

GroupKeys(t) == SortSet({t[i].Year : i \in DOMAIN t} \ {NaNYear})

\* sum and count of the non-NaN cells of column col in the rows of year y
RECURSIVE GroupAcc(_, _, _, _, _)
GroupAcc(t, y, col, i, acc) ==
    IF i > Len(t) THEN acc
    ELSE IF t[i].Year = y /\ ~IsNaN(t[i][col])
    THEN GroupAcc(t, y, col, i + 1,
                  [sum |-> RatAdd(acc.sum, t[i][col]), count |-> acc.count + 1])
    ELSE GroupAcc(t, y, col, i + 1, acc)

\* mutant: the group is summed, not averaged
GroupMean_sum(t, y, col) ==
    LET acc == GroupAcc(t, y, col, 1, [sum |-> Num(0), count |-> 0])
    IN IF acc.count = 0 THEN NaN ELSE acc.sum

\* line 84: .mean(numeric_only=True) of one group and column, NaN cells skipped,
\* NaN when the group has no valid cell
GroupMean(t, y, col) ==
    LET acc == GroupAcc(t, y, col, 1, [sum |-> Num(0), count |-> 0])
    IN IF acc.count = 0 THEN NaN ELSE RatDivInt(acc.sum, acc.count)

\* line 84: groupby('Year').mean(numeric_only=True).reset_index()
GroupByYearMean(t) ==
    LET keys == GroupKeys(t) IN
    [k \in 1..Len(keys) |->
        [Year |-> keys[k],
         LandAverageTemperature |-> GroupMean(t, keys[k], "LandAverageTemperature"),
         LandAverageTemperatureUncertainty |->
             GroupMean(t, keys[k], "LandAverageTemperatureUncertainty")]]

\* line 85: the window of .rolling(10)
window == 10

\* sum and count of the non-NaN values of series[lo..hi]
RECURSIVE WindowAcc(_, _, _, _)
WindowAcc(series, lo, hi, acc) ==
    IF lo > hi THEN acc
    ELSE IF IsNaN(series[lo]) THEN WindowAcc(series, lo + 1, hi, acc)
    ELSE WindowAcc(series, lo + 1, hi,
                   [sum |-> RatAdd(acc.sum, series[lo]), count |-> acc.count + 1])

\* mutant: min_periods=1, a value as soon as the window holds one observation
RollingMean_minp1(series, w, min_periods) ==
    [i \in 1..Len(series) |->
        LET lo == IF i - w + 1 < 1 THEN 1 ELSE i - w + 1
            acc == WindowAcc(series, lo, i, [sum |-> Num(0), count |-> 0])
        IN IF acc.count >= 1 THEN RatDivInt(acc.sum, acc.count) ELSE NaN]

\* line 85: .rolling(w).mean(): the mean of the observations in the trailing
\* window of w rows, NaN when it holds fewer than min_periods observations
RollingMean(series, w, min_periods) ==
    [i \in 1..Len(series) |->
        LET lo == IF i - w + 1 < 1 THEN 1 ELSE i - w + 1
            acc == WindowAcc(series, lo, i, [sum |-> Num(0), count |-> 0])
        IN IF acc.count >= min_periods THEN RatDivInt(acc.sum, acc.count) ELSE NaN]

\* lines 79-101
process_data(files) ==
    LET global_temp == [i \in DOMAIN files.global_temp |-> AnnotateGlobal(files.global_temp[i])]
        yearly == GroupByYearMean(global_temp)
        \* rolling(10): min_periods defaults to the window
        ma == RollingMean([k \in DOMAIN yearly |-> yearly[k].LandAverageTemperature],
                          window, window)
    IN [global_yearly |->
            [k \in DOMAIN yearly |->
                [Year |-> yearly[k].Year,
                 LandAverageTemperature |-> yearly[k].LandAverageTemperature,
                 LandAverageTemperatureUncertainty |->
                     yearly[k].LandAverageTemperatureUncertainty,
                 TenY_MA |-> ma[k]]],
        countries |-> [i \in DOMAIN files.countries |-> AnnotatePlace(files.countries[i])],
        cities |-> [i \in DOMAIN files.cities |-> AnnotatePlace(files.cities[i])]]

NoData == [global_yearly |-> <<>>, countries |-> <<>>, cities |-> <<>>]
NoChart == [rendered |-> FALSE, traces |-> <<>>]
NoTab == [chart |-> NoChart, warning |-> ""]

\* line 151
ProcessData ==
    /\ dpc = "loaded"
    /\ processed_data' = process_data(data_files)
    /\ dpc' = "processed"
    /\ UNCHANGED <<data_files, selected_cities, tab3, acq_vars>>

----------------------------------------------------------------------------
(* tab3: city comparison *)

\* line 239
DefaultCities == <<"New York", "London", "Tokyo", "Delhi">>
\* line 246
colors == <<"#FF6B6B", "#4ECDC4", "#45B7D1", "#FFA07A">>

Range(s) == {s[i] : i \in DOMAIN s}

\* line 235: .unique(), in order of first appearance
RECURSIVE Unique(_, _)
Unique(s, seen) ==
    IF s = <<>> THEN seen
    ELSE IF Head(s) \in Range(seen) THEN Unique(Tail(s), seen)
    ELSE Unique(Tail(s), Append(seen, Head(s)))

available_cities(cities) == Unique([i \in DOMAIN cities |-> cities[i].Place], <<>>)

\* lines 247-255: the trace of the i-th selected city (i counted from 0)
CityTrace(city_data, i, city) ==
    LET IsCity(row) == row.Place = city
        city_df == SelectSeq(city_data, IsCity)
    IN [name |-> city,
        color |-> colors[(i % Len(colors)) + 1],
        x |-> [k \in DOMAIN city_df |-> city_df[k].Year],
        y |-> [k \in DOMAIN city_df |-> city_df[k].AverageTemperature]]

\* mutant: the test is "selected_cities is not None"
Truthy_notNone(list) == TRUE

\* line 242: if selected_cities: a list is true when it is not empty
Truthy(list) == list # <<>>

\* lines 231-265
RenderTab3 ==
    /\ dpc = "processed"
    /\ dpc' = "rendered"
    /\ IF Truthy(selected_cities)
       THEN LET IsSelected(row) == row.Place \in Range(selected_cities)
                city_data == SelectSeq(processed_data.cities, IsSelected)
            IN tab3' = [chart |-> [rendered |-> TRUE,
                                   traces |-> [i \in DOMAIN selected_cities |->
                                                  CityTrace(city_data, i - 1, selected_cities[i])]],
                        warning |-> ""]
       ELSE tab3' = [chart |-> NoChart, warning |-> "Please select at least one city"]
    /\ UNCHANGED <<data_files, processed_data, selected_cities, acq_vars>>

\* the script runs again from the top after a widget changed
Rerun ==
    /\ processed_data' = NoData
    /\ tab3' = NoTab
    /\ dpc' = "loaded"
    /\ UNCHANGED <<data_files, acq_vars>>

\* the user adds a city to the multiselect (lines 236-240)
SelectCity ==
    /\ dpc = "rendered"
    /\ \E c \in Range(available_cities(processed_data.cities)) \ Range(selected_cities) :
          selected_cities' = Append(selected_cities, c)
    /\ Rerun

\* the user removes a city from the multiselect
DeselectCity ==
    /\ dpc = "rendered"
    /\ \E c \in Range(selected_cities) :
          LET Other(x) == x # c IN selected_cities' = SelectSeq(selected_cities, Other)
    /\ Rerun

----------------------------------------------------------------------------
(* Input tables *)

MaxRows == 3         \* rows of a small global table
NYears == 11         \* calendar years a long global table spans
MaxIrregular == 2    \* years of a long table with no row or no valid sample
FirstYear == 1895    \* first calendar year of a long table

GlobalRow(date, t, u) ==
    [dt |-> date, LandAverageTemperature |-> t, LandAverageTemperatureUncertainty |-> u]

SmallRows ==
    {GlobalRow(d, t, Num(1)) : d \in {<<1900, 1>>, <<1901, 1>>, NoDate},
                               t \in {Num(10), Num(20), Num(30), NaN}}
    \cup {GlobalRow(<<1900, 2>>, t, NaN) : t \in {Num(10), NaN}}

SmallTables == UNION {[1..n -> SmallRows] : n \in 0..MaxRows}

\* a sample of a regular year of a long table
Sample(y, m, k) == Num(((y * k + m * m) % 7) - 2)

\* the rows of year y: none, one without a valid sample, or one or two samples
YearRows(y, gaps, blanks, k) ==
    IF y \in gaps THEN <<>>
    ELSE IF y \in blanks THEN <<GlobalRow(<<y, 1>>, NaN, Num(1))>>
    ELSE [m \in 1..(1 + (y % 2)) |-> GlobalRow(<<y, m>>, Sample(y, m, k), Num(m))]

\* the rows of the years lo..hi in date order
RECURSIVE RowsFrom(_, _, _, _, _)
RowsFrom(lo, hi, gaps, blanks, k) ==
    IF lo > hi THEN <<>>
    ELSE YearRows(lo, gaps, blanks, k) \o RowsFrom(lo + 1, hi, gaps, blanks, k)

Reverse(s) == [i \in DOMAIN s |-> s[Len(s) + 1 - i]]

LongYears == FirstYear..(FirstYear + NYears - 1)

\* a file in date order (k = 1) or in reverse date order (k = 2)
LongTable(gaps, blanks, k) ==
    LET t == RowsFrom(FirstYear, FirstYear + NYears - 1, gaps, blanks, k)
    IN IF k = 1 THEN t ELSE Reverse(t)

LongTables ==
    UNION {{LongTable(g, irregular \ g, k) : g \in SUBSET irregular, k \in 1..2} :
              irregular \in {S \in SUBSET LongYears : Cardinality(S) <= MaxIrregular}}

PlaceRow(date, t, place) == [dt |-> date, AverageTemperature |-> t, Place |-> place]

SomeCountries ==
    << PlaceRow(<<1900, 1>>, Num(10), "India"), PlaceRow(<<1900, 1>>, NaN, "Japan"),
       PlaceRow(<<1901, 1>>, Num(12), "India") >>

FourCities ==
    << PlaceRow(<<1900, 1>>, Num(10), "New York"), PlaceRow(<<1900, 1>>, Num(9), "London"),
       PlaceRow(<<1900, 1>>, Num(14), "Tokyo"), PlaceRow(<<1900, 1>>, Num(25), "Delhi"),
       PlaceRow(<<1901, 1>>, Num(11), "New York"), PlaceRow(NoDate, NaN, "Delhi") >>

FiveCities == FourCities \o << PlaceRow(<<1900, 1>>, Num(11), "Paris") >>

SomeGlobal == LongTable({}, {}, 1)

InitDash(files) ==
    /\ data_files = files
    /\ processed_data = NoData
    /\ selected_cities = DefaultCities
    /\ tab3 = NoTab
    /\ dpc = "loaded"

----------------------------------------------------------------------------
(* Specifications of the acquisition *)

InitRun(d, position, n) ==
    /\ disk = d
    /\ pc = [p \in Procs |-> position[p]]
    /\ idx = [p \in Procs |-> 1]
    /\ required_files = [p \in Procs |-> [f \in FileNames |-> None]]
    /\ response = [p \in Procs |-> NoResponse]
    /\ progress = [p \in Procs |-> <<>>]
    /\ errors = [p \in Procs |-> <<>>]
    /\ raised = [p \in Procs |-> NoException]
    /\ exists_seen = [p \in Procs |-> [f \in FileNames |-> "unchecked"]]
    /\ http_calls = 0
    /\ writes = [p \in Procs |-> [f \in FileNames |-> 0]]
    /\ start_disk = [p \in Procs |-> d]
    /\ start_http = [p \in Procs |-> 0]
    /\ runs = n
    /\ InitDash([global_temp |-> SomeGlobal, countries |-> SomeCountries,
                 cities |-> FourCities])

\* Sequential page loads: any cache left by earlier loads, runs one at a time.
InitSeq ==
    \E d \in UNION {[FileNames -> {Absent, c}] : c \in Contents} :
        InitRun(d, [p \in Procs |-> "idle"], 0)

NextSeq ==
    \/ Start(1)
    \/ ExistsAll(1)
    \/ ReadCached(1)
    \/ HttpGet(1, Responses)
    \/ Stream(1)
    \/ Extract(1)
    \/ PersistCheck(1)
    \/ ToCsv(1)
    \/ LoadedCheck(1)

SpecSeq == InitSeq /\ [][NextSeq]_vars

\* Two concurrent first-time loads: no cache file, both runs at line 25.
InitConc ==
    InitRun([f \in FileNames |-> Absent], [p \in Procs |-> "exists_all"], 2)

NextConc ==
    \E p \in Procs :
        \/ ExistsAll(p)
        \/ ReadCached(p)
        \/ HttpGet(p, HealthyResponses)
        \/ Stream(p)
        \/ Extract(p)
        \/ PersistCheck(p)
        \/ ToCsv(p)
        \/ LoadedCheck(p)

SpecConc == InitConc /\ [][NextConc]_vars

TypeOK ==
    /\ disk \in [FileNames -> {Absent} \cup Contents]
    /\ pc \in [Procs -> {"idle", "exists_all", "read_cached", "http_get", "stream",
                         "extract", "persist", "to_csv", "loaded_check",
                         "returned", "stopped", "crashed"}]
    /\ idx \in [Procs -> 1..Len(Files)]
    /\ runs \in 0..MaxRuns

----------------------------------------------------------------------------
(* Specifications of the dashboard *)

InitAcqIdle ==
    /\ disk = [f \in FileNames |-> 1]
    /\ pc = [p \in Procs |-> "returned"]
    /\ idx = [p \in Procs |-> 1]
    /\ required_files = [p \in Procs |-> [f \in FileNames |-> 1]]
    /\ response = [p \in Procs |-> NoResponse]
    /\ progress = [p \in Procs |-> <<>>]
    /\ errors = [p \in Procs |-> <<>>]
    /\ raised = [p \in Procs |-> NoException]
    /\ exists_seen = [p \in Procs |-> [f \in FileNames |-> "unchecked"]]
    /\ http_calls = 0
    /\ writes = [p \in Procs |-> [f \in FileNames |-> 0]]
    /\ start_disk = [p \in Procs |-> disk]
    /\ start_http = [p \in Procs |-> 0]
    /\ runs = MaxRuns

\* process_data applied to a global table
InitProc ==
    /\ InitAcqIdle
    /\ \E t \in SmallTables \cup LongTables :
          InitDash([global_temp |-> t, countries |-> SomeCountries, cities |-> FourCities])

NextProc == ProcessData

SpecProc == InitProc /\ [][NextProc]_vars

\* the script and the multiselect of tab3
InitCity ==
    /\ InitAcqIdle
    /\ \E c \in {FourCities, FiveCities} :
          InitDash([global_temp |-> SomeGlobal, countries |-> SomeCountries, cities |-> c])

NextCity ==
    \/ ProcessData
    \/ RenderTab3
    \/ SelectCity
    \/ DeselectCity

SpecCity == InitCity /\ [][NextCity]_vars

----------------------------------------------------------------------------
(* Properties of the acquisition *)

\* C1: a run that starts with all three cache files on disk issues no HTTP
\* request; it only checks and reads the files and returns the tables read
\* from disk.
C1_NoNetworkWhenCached ==
    \A p \in Procs :
        (pc[p] # "idle" /\ AllCached(start_disk[p])) =>
            /\ http_calls = start_http[p]
            /\ pc[p] \in {"exists_all", "read_cached", "returned"}
            /\ response[p] = NoResponse
            /\ (pc[p] = "returned" => required_files[p] = start_disk[p])

C1_Witness ==
    /\ pc[1] = "returned"
    /\ AllCached(start_disk[1])
    /\ required_files[1] = disk

\* C2: get_climate_data never returns a partial result: a run that returned
\* holds a table for each of the three names, and a run whose request failed,
\* whose archive lacks a member or holds a malformed one did not return.
C2_NoPartialResult ==
    \A p \in Procs :
        pc[p] = "returned" =>
            /\ AllLoaded(required_files[p])
            /\ raised[p] = NoException
            /\ (response[p] # NoResponse =>
                   /\ response[p].status = "ok"
                   /\ response[p].valid_zip
                   /\ \A f \in FileNames : response[p].archive[f] \in Contents)

C2_Witness ==
    /\ pc[1] = "returned"
    /\ response[1].status = "ok"
    /\ \E f \in FileNames : writes[1][f] = 1

CompleteArchive(r) ==
    /\ r.status = "ok"
    /\ r.valid_zip
    /\ \A f \in FileNames : r.archive[f] \in Contents

\* C3: with no declared content-length (taken as 0) the download reports
\* progress 0 for every chunk, raises nothing, and with a complete archive
\* the run is not halted.
C3_UnknownLengthTolerated ==
    \A p \in Procs :
        (CompleteArchive(response[p]) /\ response[p].content_length = 0) =>
            /\ raised[p] = NoException
            /\ pc[p] # "stopped"
            /\ (pc[p] \notin {"http_get", "stream"} =>
                   /\ Len(progress[p]) = Len(response[p].chunks)
                   /\ \A i \in DOMAIN progress[p] : progress[p][i][1] = 0)

\* C4: a sequential run never writes, changes or removes a cache file that
\* existed when the run began, and a run that returned leaves all three files
\* cached, so the run after it changes nothing on disk.
C4_ExistingFilesUntouched ==
    \A p \in Procs :
        /\ \A f \in FileNames :
              start_disk[p][f] # Absent => disk[f] = start_disk[p][f]
        /\ (pc[p] = "returned" => AllCached(disk))

C4_Witness ==
    /\ pc[1] = "returned"
    /\ \E f \in FileNames :
          /\ start_disk[1][f] # Absent
          /\ response[1].archive[f] \in Contents
          /\ response[1].archive[f] # start_disk[1][f]
    /\ \E g \in FileNames : writes[1][g] = 1

\* C7 (as claimed): in two concurrent first-time runs each cache file is
\* written at most once.
C7_WrittenAtMostOnce ==
    \A f \in FileNames : writes[1][f] + writes[2][f] <= 1

\* C7 (amended): each run writes each cache file at most once and only when
\* its own test at line 62 found the file absent; a run whose test found the
\* file present does not write it; so a file is written at most twice.
C7_WrittenOncePerRun ==
    \A f \in FileNames :
        /\ \A p \in Procs :
              /\ writes[p][f] <= 1
              /\ (writes[p][f] = 1 => exists_seen[p][f] = "absent")
              /\ (pc[p] = "to_csv" /\ Files[idx[p]] = f => exists_seen[p][f] = "absent")
        /\ writes[1][f] + writes[2][f] <= 2

C7_Witness ==
    \E f \in FileNames :
        /\ writes[1][f] = 1
        /\ writes[2][f] = 1
        /\ \E g \in FileNames : exists_seen[2][g] = "present" /\ writes[2][g] = 0

PartialArchive(r) ==
    /\ r.status = "ok"
    /\ r.valid_zip
    /\ \E f \in FileNames : r.archive[f] # Missing
    /\ \E f \in FileNames : r.archive[f] = Missing

\* a run that fetched and opened its archive and then halted
HaltedAfterDownload(p) ==
    /\ pc[p] = "stopped"
    /\ PartialArchive(response[p])
    /\ raised[p] # "ZeroDivisionError"

\* a run that found fewer than three files has issued the request by the time
\* it is past line 33
PartialCacheRefetches(p) ==
    (pc[p] \notin {"idle", "exists_all"} /\ ~AllCached(start_disk[p])) =>
        /\ pc[p] # "read_cached"
        /\ http_calls = start_http[p] + (IF pc[p] = "http_get" THEN 0 ELSE 1)

\* C10 (as claimed): when the downloaded archive holds some but not all
\* expected members, the halted run has written every table that is in the
\* archive and was not cached; a later run on the partial cache requests again.
C10_PartialCacheAlways ==
    \A p \in Procs :
        /\ HaltedAfterDownload(p) =>
              \A f \in FileNames :
                  (response[p].archive[f] \in Contents /\ start_disk[p][f] = Absent)
                      => disk[f] = response[p].archive[f]
        /\ PartialCacheRefetches(p)

\* C10 (amended): the same when every member the archive holds parses; when
\* one of them fails to parse the run halts without writing any file.
C10_PartialCache ==
    \A p \in Procs :
        /\ (HaltedAfterDownload(p) /\ \A f \in FileNames : response[p].archive[f] # Malformed) =>
              /\ \A f \in FileNames :
                    (response[p].archive[f] # Missing /\ start_disk[p][f] = Absent)
                        => disk[f] = response[p].archive[f]
              /\ (\E f \in FileNames :
                     response[p].archive[f] = Missing /\ start_disk[p][f] = Absent)
                    => ~AllCached(disk)
        /\ (HaltedAfterDownload(p) /\ \E f \in FileNames : response[p].archive[f] = Malformed) =>
              /\ raised[p] = "ParserError"
              /\ disk = start_disk[p]
        /\ PartialCacheRefetches(p)

C10_Witness ==
    /\ runs = 2
    /\ http_calls = 2
    /\ ~AllCached(start_disk[1])
    /\ \E f \in FileNames : start_disk[1][f] # Absent /\ writes[1][f] = 1

----------------------------------------------------------------------------
(* Properties of process_data and of tab3 *)

\* product of the denominators of series[lo..hi]
RECURSIVE DenProduct(_, _, _)
DenProduct(series, lo, hi) ==
    IF lo > hi THEN 1 ELSE series[lo][2] * DenProduct(series, lo + 1, hi)

\* sum of series[lo..hi] in units of 1/den
RECURSIVE ScaledSum(_, _, _, _)
ScaledSum(series, lo, hi, den) ==
    IF lo > hi THEN 0
    ELSE series[lo][1] * (den \div series[lo][2]) + ScaledSum(series, lo + 1, hi, den)

YearlyLand == [k \in DOMAIN processed_data.global_yearly |->
                  processed_data.global_yearly[k].LandAverageTemperature]

\* C5: 10Y_MA is undefined for the rows at indices 0 to 8 and, from index 9
\* on, is the arithmetic mean of the yearly LandAverageTemperature means of
\* the row and the 9 rows before it (undefined when one of the ten is).
C5_TrailingMean ==
    dpc = "processed" =>
        \A k \in DOMAIN processed_data.global_yearly :
            LET ma == processed_data.global_yearly[k].TenY_MA IN
            IF k <= 9 THEN IsNaN(ma)
            ELSE IF \E j \in (k - 9)..k : IsNaN(YearlyLand[j]) THEN IsNaN(ma)
            ELSE LET den == DenProduct(YearlyLand, k - 9, k) IN
                 /\ ~IsNaN(ma)
                 /\ ma[1] * 10 * den = ma[2] * ScaledSum(YearlyLand, k - 9, k, den)

C5_Witness ==
    /\ dpc = "processed"
    /\ Len(processed_data.global_yearly) = NYears
    /\ ~IsNaN(processed_data.global_yearly[10].TenY_MA)
    /\ ~IsNaN(processed_data.global_yearly[11].TenY_MA)
    /\ processed_data.global_yearly[10].TenY_MA # processed_data.global_yearly[11].TenY_MA
    /\ IsNaN(processed_data.global_yearly[9].TenY_MA)
    /\ ~IsNaN(processed_data.global_yearly[9].LandAverageTemperature)

\* the calendar year of a row of the source, 0 when it has no date
SourceYear(row) == IF row.dt = NoDate THEN 0 ELSE row.dt[1]
SourceYears == {SourceYear(data_files.global_temp[i]) : i \in DOMAIN data_files.global_temp} \ {0}

\* the rows of the source of year y with a valid sample in column col
ValidSamples(y, col) ==
    {i \in DOMAIN data_files.global_temp :
        /\ SourceYear(data_files.global_temp[i]) = y
        /\ ~IsNaN(data_files.global_temp[i][col])}

RECURSIVE SampleSum(_, _)
SampleSum(S, col) ==
    IF S = {} THEN 0
    ELSE LET i == CHOOSE x \in S : TRUE
         IN data_files.global_temp[i][col][1] + SampleSum(S \ {i}, col)

\* C6: global_yearly has exactly one row per distinct year of the global
\* table; each numeric column holds the arithmetic mean of the valid samples
\* of the year, and is undefined (not zero) when the year has none.
C6_YearlyMean ==
    dpc = "processed" =>
        LET gy == processed_data.global_yearly IN
        /\ {gy[k].Year : k \in DOMAIN gy} = SourceYears
        /\ Len(gy) = Cardinality(SourceYears)
        /\ \A k \in DOMAIN gy : \A col \in NumericColumns :
              LET S == ValidSamples(gy[k].Year, col) IN
              IF S = {} THEN IsNaN(gy[k][col])
              ELSE /\ ~IsNaN(gy[k][col])
                   /\ gy[k][col][1] * Cardinality(S) = gy[k][col][2] * SampleSum(S, col)

\* years {1900, 1900, 1901} with values {10, 20, 30} give 15 for 1900
C6_Witness ==
    /\ dpc = "processed"
    /\ Len(data_files.global_temp) = 3
    /\ \A i \in 1..3 : data_files.global_temp[i].dt = <<(IF i = 3 THEN 1901 ELSE 1900), 1>>
    /\ \A i \in 1..3 : data_files.global_temp[i].LandAverageTemperature = Num(10 * i)
    /\ \A i \in 1..3 : data_files.global_temp[i].LandAverageTemperatureUncertainty = Num(1)
    /\ Len(processed_data.global_yearly) = 2
    /\ processed_data.global_yearly[1].Year = 1900
    /\ processed_data.global_yearly[1].LandAverageTemperature = Num(15)
    /\ processed_data.global_yearly[2].LandAverageTemperature = Num(30)
    /\ processed_data.global_yearly[1].LandAverageTemperatureUncertainty = Num(1)

\* C8: the years of global_yearly are contiguous: there is a row for every
\* year between the first and the last year of the global table, so the 10
\* rows of a 10Y_MA window are 10 consecutive calendar years.
C8_YearsContiguous ==
    dpc = "processed" =>
        LET gy == processed_data.global_yearly IN
        /\ \A y1 \in SourceYears : \A y2 \in SourceYears : \A y \in y1..y2 :
              \E k \in DOMAIN gy : gy[k].Year = y
        /\ \A k \in DOMAIN gy : k >= 10 => gy[k].Year - gy[k - 9].Year = 9

\* C9: when no city is selected tab3 builds no chart and shows the warning
\* "Please select at least one city"; it renders a chart, with one trace per
\* selected city, exactly when at least one city is selected.
C9_EmptySelectionWarns ==
    dpc = "rendered" =>
        /\ (selected_cities = <<>> =>
               /\ tab3.chart = NoChart
               /\ tab3.warning = "Please select at least one city")
        /\ (selected_cities # <<>> =>
               /\ tab3.chart.rendered
               /\ Len(tab3.chart.traces) = Len(selected_cities)
               /\ tab3.warning = "")
        /\ (tab3.chart.rendered <=> selected_cities # <<>>)

C9_Witness ==
    /\ dpc = "rendered"
    /\ selected_cities = <<>>
    /\ tab3.warning = "Please select at least one city"
    /\ ~tab3.chart.rendered
====
